---- MODULE Spec2Model ----
(***************************************************************************)
(* Model of the segment detection and fusion pipeline of the YouTube       *)
(* clipper: ViralContentDetector (audio energy walk and scoring),          *)
(* EnhancedViralDetector (fusion of audio segments with caption analysis)  *)
(* and CaptionScraper.groupCaptionsIntoSegments (transcript windows).      *)
(*                                                                         *)
(* Numbers.  JavaScript numbers are modelled as exact values: scores are   *)
(* rationals in lowest terms ([num, den], den > 0), times are integers in  *)
(* the unit each component states.  Floating-point rounding is not         *)
(* modelled.                                                               *)
(***************************************************************************)
EXTENDS Integers, Sequences, FiniteSets, TLC

VARIABLES
    \* ViralContentDetector.detectViralSegments
    options,            \* this.options after the constructor
    videoExists,        \* fs.existsSync(videoPath)
    extractFails,       \* ffmpeg 'error' event while extracting the audio
    probeFails,         \* ffprobe calls back with err
    audioDuration,      \* metadata.format.duration || 0, in seconds
    energyLevels,       \* the samples analyzeEnergyLevels produced
    audioFileExists,    \* the extracted <video>_audio.wav is on disk
    detected,           \* the value detectViralSegments resolved with
    detectThrew,        \* the promise of detectViralSegments was rejected
    detectPc,
    \* EnhancedViralDetector.combineAudioAndCaptionAnalysis
    audioSegments,
    captionAnalysisResults,
    enhancedBuilt,      \* enhancedSegments as the two loops built it (before line 323)
    enhanced,           \* the returned EnhancedSegment[]
    fusePc,
    \* CaptionScraper.groupCaptionsIntoSegments
    captions,
    segmentDuration,
    grouped,            \* the returned Caption[]
    groupThrew,         \* the call ended with an exception
    groupPc,
    \* CaptionAnalyzer.analyzeMultipleSegments
    scoreCaptions,      \* the captions argument
    calls,              \* per caption: the analyzeViralPotential call of its batch
    scoreI,             \* the loop variable i (0-based)
    scoreResults,       \* the results array
    delays,             \* the timeouts slept so far, in ms
    elapsed,            \* ms since the call of analyzeMultipleSegments
    scoreReturned,      \* the resolved value
    scoreThrew,         \* the promise of analyzeMultipleSegments was rejected
    scorePc,
    \* VideoClipper.clipMultipleSegments
    clipVideoExists,    \* fs.existsSync(videoPath)
    clipSegments,       \* the segments argument
    baseFilename,       \* the baseFilename argument, "" when absent
    clipI,              \* the loop variable i (0-based)
    clipResults,        \* the results array
    clipRunning,        \* the clipSegment call being awaited: [index, outputPath]
    renders,            \* what ffmpeg did, in order: [index, ok]
    now,                \* Date.now()
    clipReturned,       \* the resolved value
    clipPc,
    \* RemotionClipper
    sliceCaptions,      \* props.captions
    selectedSegment,
    isRendering,
    renderRequest,      \* the body posted to /api/render-clip
    clipUrl,            \* clipUrl is set
    renderError,        \* error is set
    slicePc,
    \* EnhancedViralDetector.filterSegmentsByDuration, applied twice
    filterSegments,     \* the segments argument
    minDuration,        \* the minDuration argument, [given, value]
    maxDuration,        \* the maxDuration argument, [given, value]
    filteredOnce,       \* the value of the first call
    filteredTwice,      \* the value of the call on filteredOnce
    filterPc,
    \* CaptionAnalyzer.analyzeViralPotential, one call
    scorerResponse,     \* what the scorer does with the request
    parsedResult,       \* the value the call resolves with
    parsePc,
    \* VideoClipper.createCompilation, two calls on one output directory
    clipPathsOf,        \* the clipPaths argument of each call
    existingClips,      \* the clip files that exist
    listFile,           \* <outputDir>/clips_list.txt
    ffmpegInput,        \* the list each call's ffmpeg read
    compilePc

detectVars == <<options, videoExists, extractFails, probeFails, audioDuration,
                energyLevels, audioFileExists, detected, detectThrew, detectPc>>
fuseVars == <<audioSegments, captionAnalysisResults, enhancedBuilt, enhanced, fusePc>>
groupVars == <<captions, segmentDuration, grouped, groupThrew, groupPc>>
scoreVars == <<scoreCaptions, calls, scoreI, scoreResults, delays, elapsed, scoreReturned,
               scoreThrew, scorePc>>
clipVars == <<clipVideoExists, clipSegments, baseFilename, clipI, clipResults, clipRunning,
              renders, now, clipReturned, clipPc>>
sliceVars == <<sliceCaptions, selectedSegment, isRendering, renderRequest, clipUrl,
               renderError, slicePc>>
filterVars == <<filterSegments, minDuration, maxDuration, filteredOnce, filteredTwice,
                filterPc>>
parseVars == <<scorerResponse, parsedResult, parsePc>>
compileVars == <<clipPathsOf, existingClips, listFile, ffmpegInput, compilePc>>
vars == <<detectVars, fuseVars, groupVars, scoreVars, clipVars, sliceVars,
         filterVars, parseVars, compileVars>>

----------------------------------------------------------------------------
(* Bounds of the model *)

MaxSamples == 6         \* energy samples per audio file (the code draws 100)
MaxInputs == 3          \* audio segments plus analysis results given to fuse
MaxTime == 2            \* latest time (s) of a fuse input interval
MaxCaptions == 3        \* captions given to group
MaxCaptionTime == 3     \* largest caption start and duration (s)
MaxScored == 7          \* captions given to analyzeMultipleSegments
MaxClips == 3           \* segments given to clipMultipleSegments
MaxSliceCaptions == 2   \* captions given to RemotionClipper
MaxSliceTime == 3       \* latest caption or selection time (s) in RemotionClipper
MaxFiltered == 3        \* segments given to filterSegmentsByDuration
MaxCompiled == 2        \* clips given to one createCompilation

----------------------------------------------------------------------------
(* Exact arithmetic for JavaScript numbers *)

Abs(x) == IF x < 0 THEN -x ELSE x

Max(a, b) == IF a > b THEN a ELSE b

RECURSIVE Gcd(_, _)
Gcd(a, b) == IF b = 0 THEN a ELSE Gcd(b, a % b)

\* The value of a Number that is not a number
NaN == [num |-> 0, den |-> 0]

\* The number n/d: a rational in lowest terms with a positive denominator,
\* and, as in IEEE arithmetic, 1/0 (Infinity), -1/0 (-Infinity) or 0/0 (NaN)
\* where d is 0.
Rat(n, d) ==
    IF n = 0 /\ d = 0 THEN NaN
    ELSE LET s == IF d < 0 THEN -1 ELSE 1
             g == Gcd(Abs(n), Abs(d))
         IN  [num |-> (s * n) \div g, den |-> (s * d) \div g]

RatAdd(x, y) == Rat(x.num * y.den + y.num * x.den, x.den * y.den)
RatMul(x, y) == Rat(x.num * y.num, x.den * y.den)

\* x < y and x <= y: false where an operand is NaN
RatLess(x, y) ==
    /\ x # NaN /\ y # NaN
    /\ IF x.den = 0 /\ y.den = 0 THEN x.num < y.num ELSE x.num * y.den < y.num * x.den
RatLeq(x, y) ==
    /\ x # NaN /\ y # NaN
    /\ IF x.den = 0 /\ y.den = 0 THEN x.num <= y.num ELSE x.num * y.den <= y.num * x.den

\* Array.prototype.sort((a, b) => key(b) - key(a)) on the indices of keys: a stable
\* sort, largest key first; an index goes after every index whose key is not smaller
\* (a comparator value of NaN counts as 0).
RECURSIVE insertDescending(_, _, _)
insertDescending(sorted, i, keys) ==
    IF sorted = <<>> THEN <<i>>
    ELSE IF RatLess(keys[Head(sorted)], keys[i])
         THEN <<i>> \o sorted
         ELSE <<Head(sorted)>> \o insertDescending(Tail(sorted), i, keys)

RECURSIVE sortedIndices(_, _)
sortedIndices(n, keys) ==
    IF n = 0 THEN <<>>
    ELSE insertDescending(sortedIndices(n - 1, keys), n, keys)

\* arr sorted by keys (keys[k] is the key of arr[k]), descending and stable
sortDescending(arr, keys) ==
    LET perm == sortedIndices(Len(arr), keys)
    IN  [k \in 1..Len(arr) |-> arr[perm[k]]]

----------------------------------------------------------------------------
(* ViralContentDetector.  Times of detected segments are in ticks: one     *)
(* second is Len(energyLevels) ticks, so that (i / N) * T is the integer   *)
(* i * T.  Energy levels and the threshold are in hundredths.              *)

\* a || b on numbers: 0 (like undefined) is falsy
OrDefault(v, d) == IF v = 0 THEN d ELSE v

constructor(o) ==
    [minSegmentDuration |-> OrDefault(o.minSegmentDuration, 5),
     maxSegmentDuration |-> OrDefault(o.maxSegmentDuration, 60),
     energyThreshold    |-> OrDefault(o.energyThreshold, 60),
     speechRateThreshold |-> OrDefault(o.speechRateThreshold, 70)]

\* The duration test applied where a low-energy sample closes the candidate
\* (duration in ticks, n ticks per second).
withinDurationAtSample(duration, opts, n) ==
    /\ duration >= opts.minSegmentDuration * n
    /\ duration <= opts.maxSegmentDuration * n

withinDurationAtEnd_NoUpper(duration, opts, n) ==
    duration >= opts.minSegmentDuration * n

\* The duration test applied to the candidate still open after the last sample.
withinDurationAtEnd(duration, opts, n) ==
    /\ duration >= opts.minSegmentDuration * n
    /\ duration <= opts.maxSegmentDuration * n

NoSegment == [open |-> FALSE, start |-> 0]

highEnergy_AtThreshold(energy, opts) == energy >= opts.energyThreshold

\* The test of line 307
highEnergy(energy, opts) == energy > opts.energyThreshold

\* The for loop of analyzeAudio from sample i (1-based here, i - 1 in the code).
RECURSIVE walkSamples(_, _, _, _, _, _)
walkSamples(levels, T, opts, i, currentSegment, segs) ==
    IF i > Len(levels) THEN [currentSegment |-> currentSegment, segments |-> segs]
    ELSE
      LET timePoint == (i - 1) * T
          energy == levels[i]
      IN  IF highEnergy(energy, opts)
          THEN walkSamples(levels, T, opts, i + 1,
                   IF ~currentSegment.open
                   THEN [open |-> TRUE, start |-> timePoint]
                   ELSE currentSegment,
                   segs)
          ELSE IF currentSegment.open
          THEN LET seg == [start |-> currentSegment.start, end |-> timePoint,
                           score |-> Rat(0, 1), type |-> "speech"]
               IN  walkSamples(levels, T, opts, i + 1, NoSegment,
                       IF withinDurationAtSample(seg.end - seg.start, opts, Len(levels))
                       THEN Append(segs, seg) ELSE segs)
          ELSE walkSamples(levels, T, opts, i + 1, currentSegment, segs)

analyzeAudio(levels, T, opts) ==
    LET w == walkSamples(levels, T, opts, 1, NoSegment, <<>>)
        n == Len(levels)
        seg == [start |-> w.currentSegment.start, end |-> T * n,
                score |-> Rat(0, 1), type |-> "speech"]
    IN  IF w.currentSegment.open /\ withinDurationAtEnd(seg.end - seg.start, opts, n)
        THEN Append(w.segments, seg)
        ELSE w.segments

\* 1 - |duration - 15| / maxDistance, duration in ticks (n per second); the
\* quotient is NaN or infinite where maxDistance is 0.
calculateDurationScore(duration, opts, n) ==
    LET optimalDuration == 15
        distanceFromOptimal == Abs(duration - optimalDuration * n)
        maxDistance == Max(optimalDuration - opts.minSegmentDuration,
                           opts.maxSegmentDuration - optimalDuration)
    IN  RatAdd(Rat(1, 1), Rat(-distanceFromOptimal, maxDistance * n))

scoreSegments(segs, opts, n) ==
    LET scored == [k \in 1..Len(segs) |->
            LET durationScore == calculateDurationScore(segs[k].end - segs[k].start, opts, n)
                typeScore == IF segs[k].type = "speech" THEN Rat(8, 10) ELSE Rat(4, 10)
            IN  [segs[k] EXCEPT !.score = RatMul(RatAdd(durationScore, typeScore), Rat(1, 2))]]
    IN  sortDescending(scored, [k \in 1..Len(scored) |-> scored[k].score])

OptionInputs ==
    [minSegmentDuration : {0, 10, 15}, maxSegmentDuration : {0, 15, 20},
     energyThreshold : {0}, speechRateThreshold : {0}]

Durations == {0, 12, 30, 120}

EnergyValues == {50, 60, 70}

\* what a call of detectViralSegments leaves alone: its own inputs and the
\* other components
detectInputs == <<options, videoExists, extractFails, probeFails, audioDuration,
                  fuseVars, groupVars, scoreVars, clipVars, sliceVars, filterVars, parseVars, compileVars>>

InitDetect ==
    /\ options \in {constructor(o) : o \in OptionInputs}
    /\ videoExists \in BOOLEAN
    /\ extractFails \in BOOLEAN
    /\ probeFails \in BOOLEAN
    /\ audioDuration \in Durations
    /\ energyLevels = <<>>
    /\ audioFileExists = FALSE
    /\ detected = <<>>
    /\ detectThrew = FALSE
    /\ detectPc = "idle"

\* detectViralSegments(videoPath), from the call to the resolved value.  Every
\* throw inside the try block lands in the catch of lines 260-263, which returns
\* []: the promise is never rejected.
DetectNoVideo ==
    /\ detectPc = "idle" /\ ~videoExists
    /\ detected' = <<>>
    /\ detectThrew' = FALSE
    /\ detectPc' = "done"
    /\ UNCHANGED <<energyLevels, audioFileExists>>
    /\ UNCHANGED detectInputs

\* extractAudio rejects; ffmpeg may leave a partial output file behind.
DetectExtractFails ==
    /\ detectPc = "idle" /\ videoExists /\ extractFails
    /\ audioFileExists' \in BOOLEAN
    /\ detected' = <<>>
    /\ detectThrew' = FALSE
    /\ detectPc' = "done"
    /\ UNCHANGED energyLevels
    /\ UNCHANGED detectInputs

\* getAudioDuration rejects inside analyzeAudio: the catch returns [] and the
\* clean-up of lines 255-257 is skipped.
DetectProbeFails ==
    /\ detectPc = "idle" /\ videoExists /\ ~extractFails /\ probeFails
    /\ audioFileExists' = TRUE
    /\ detected' = <<>>
    /\ detectThrew' = FALSE
    /\ detectPc' = "done"
    /\ UNCHANGED energyLevels
    /\ UNCHANGED detectInputs

DetectAnalyzes ==
    /\ detectPc = "idle" /\ videoExists /\ ~extractFails /\ ~probeFails
    /\ \E levels \in [1..MaxSamples -> EnergyValues] :
          /\ energyLevels' = levels
          /\ detected' = scoreSegments(analyzeAudio(levels, audioDuration, options),
                                       options, Len(levels))
    /\ audioFileExists' = FALSE
    /\ detectThrew' = FALSE
    /\ detectPc' = "done"
    /\ UNCHANGED detectInputs

detectViralSegments ==
    \/ DetectNoVideo
    \/ DetectExtractFails
    \/ DetectProbeFails
    \/ DetectAnalyzes

----------------------------------------------------------------------------
(* EnhancedViralDetector.  Times are in seconds.  An analysis result is    *)
(* [score, caption]; the fields reasons, emotions, keywords and summary    *)
(* are carried along untouched by the code and are left out.  A text is a  *)
(* sequence of characters.                                                 *)

\* Segments overlap if one starts before the other ends
segmentsOverlap_Closed(segment1, segment2) ==
    segment1.start <= segment2.end /\ segment2.start <= segment1.end

segmentsOverlap(segment1, segment2) ==
    segment1.start < segment2.end /\ segment2.start < segment1.end

\* The {start, end, analysis} view of a result (lines 243-247 and 294-298)
captionSegment(result) ==
    [start |-> result.caption.start,
     end |-> result.caption.start + result.caption.duration,
     analysis |-> result]

findOverlappingCaptions(audioSegment, captionSegments) ==
    SelectSeq(captionSegments,
              LAMBDA c : segmentsOverlap([start |-> audioSegment.start, end |-> audioSegment.end],
                                         [start |-> c.start, end |-> c.end]))

RECURSIVE sumScores(_)
sumScores(overlapping) ==
    IF overlapping = <<>> THEN Rat(0, 1)
    ELSE RatAdd(sumScores(SubSeq(overlapping, 1, Len(overlapping) - 1)),
                overlapping[Len(overlapping)].analysis.score)

avgAiScore_Max(overlapping) ==
    LET best == CHOOSE c \in {overlapping[k] : k \in 1..Len(overlapping)} :
                    \A k \in 1..Len(overlapping) :
                        RatLeq(overlapping[k].analysis.score, c.analysis.score)
    IN  best.analysis.score

\* reduce((sum, caption) => sum + caption.analysis.score, 0) / length
avgAiScore(overlapping) == RatMul(sumScores(overlapping), Rat(1, Len(overlapping)))

\* map(caption => caption.analysis.caption.text).join(' ')
RECURSIVE combinedCaptionText(_)
combinedCaptionText(overlapping) ==
    IF Len(overlapping) = 1 THEN overlapping[1].analysis.caption.text
    ELSE combinedCaptionText(SubSeq(overlapping, 1, Len(overlapping) - 1))
         \o <<" ">> \o overlapping[Len(overlapping)].analysis.caption.text

\* reduce((best, current) => current.score > best.score ? current : best, first)
RECURSIVE bestAnalysis(_)
bestAnalysis(overlapping) ==
    IF Len(overlapping) = 1 THEN overlapping[1]
    ELSE LET best == bestAnalysis(SubSeq(overlapping, 1, Len(overlapping) - 1))
             current == overlapping[Len(overlapping)]
         IN  IF RatLess(best.analysis.score, current.analysis.score) THEN current ELSE best

weightedScore_HeavyAudio(audioScore, aiScore) ==
    RatAdd(RatMul(audioScore, Rat(6, 10)), RatMul(aiScore, Rat(6, 10)))

\* (audioSegment.score * audioWeight) + (avgAiScore * captionWeight)
weightedScore(audioScore, aiScore) ==
    RatAdd(RatMul(audioScore, Rat(4, 10)), RatMul(aiScore, Rat(6, 10)))

\* audioSegment.score * 0.7
audioOnlyScore(audioScore) == RatMul(audioScore, Rat(7, 10))

\* captionResult.score * 0.8
captionOnlyScore(aiScore) == RatMul(aiScore, Rat(8, 10))

isHighScoring_Strict(result) == RatLess(Rat(7, 10), result.score)

\* the negation of `captionResult.score < 0.7` (line 292)
isHighScoring(result) == ~RatLess(result.score, Rat(7, 10))

\* The body of the first loop for one audio segment (lines 239-287)
enhanceAudioSegment(audioSegment, results) ==
    LET overlappingCaptions ==
            findOverlappingCaptions(audioSegment,
                [k \in 1..Len(results) |-> captionSegment(results[k])])
    IN  IF Len(overlappingCaptions) > 0
        THEN [captionText |-> combinedCaptionText(overlappingCaptions),
              aiAnalysis |-> bestAnalysis(overlappingCaptions).analysis,
              combinedScore |-> weightedScore(audioSegment.score,
                                              avgAiScore(overlappingCaptions))]
             @@ audioSegment
        ELSE [combinedScore |-> audioOnlyScore(audioSegment.score)] @@ audioSegment

hasOverlap_SkipsLast(enhancedSegments, cs) ==
    \E k \in 1..(Len(enhancedSegments) - 1) :
        segmentsOverlap([start |-> enhancedSegments[k].start, end |-> enhancedSegments[k].end],
                        [start |-> cs.start, end |-> cs.end])

\* enhancedSegments.some(segment => this.segmentsOverlap(segment, captionSegment))
hasOverlap(enhancedSegments, cs) ==
    \E k \in 1..Len(enhancedSegments) :
        segmentsOverlap([start |-> enhancedSegments[k].start, end |-> enhancedSegments[k].end],
                        [start |-> cs.start, end |-> cs.end])

\* The second loop from result j on (lines 290-320)
RECURSIVE addCaptionSegments(_, _, _)
addCaptionSegments(results, j, enhancedSegments) ==
    IF j > Len(results) THEN enhancedSegments
    ELSE LET captionResult == results[j]
             cs == captionSegment(captionResult)
         IN  IF ~isHighScoring(captionResult)
             THEN addCaptionSegments(results, j + 1, enhancedSegments)
             ELSE IF ~hasOverlap(enhancedSegments, cs)
             THEN addCaptionSegments(results, j + 1,
                      Append(enhancedSegments,
                             [start |-> cs.start, end |-> cs.end,
                              score |-> Rat(5, 10), type |-> "speech",
                              captionText |-> captionResult.caption.text,
                              aiAnalysis |-> captionResult,
                              combinedScore |-> captionOnlyScore(captionResult.score)]))
             ELSE addCaptionSegments(results, j + 1, enhancedSegments)

\* enhancedSegments as the two loops leave it, before the sort of line 323
enhancedSegmentsBuilt(audio, results) ==
    addCaptionSegments(results, 1,
        [k \in 1..Len(audio) |-> enhanceAudioSegment(audio[k], results)])

sortByCombinedScore_TiesReversed(segs) ==
    LET r == [k \in 1..Len(segs) |-> segs[Len(segs) + 1 - k]]
    IN  sortDescending(r, [k \in 1..Len(r) |-> r[k].combinedScore])

\* enhancedSegments.sort((a, b) => b.combinedScore - a.combinedScore)
sortByCombinedScore(segs) ==
    sortDescending(segs, [k \in 1..Len(segs) |-> segs[k].combinedScore])

combineAudioAndCaptionAnalysis(audio, results) ==
    sortByCombinedScore(enhancedSegmentsBuilt(audio, results))

FuseIntervals == {<<s, e>> \in (0..MaxTime) \X (0..MaxTime) : s < e}

AudioScores == {Rat(0, 1), Rat(1, 2), Rat(1, 1)}

RelevanceScores == {Rat(69, 100), Rat(7, 10), Rat(1, 1)}

AudioSegmentInputs ==
    {[start |-> iv[1], end |-> iv[2], score |-> sc, type |-> "speech"] :
        iv \in FuseIntervals, sc \in AudioScores}

\* the text of the k-th result's caption
CaptionTexts == <<<<"a">>, <<"b">>, <<"c">>, <<"d">>, <<"e">>, <<"f">>, <<"g">>, <<"h">>>>

\* the k-th result with the source interval iv and the score sc
ResultInput(k, iv, sc) ==
    [score |-> sc,
     caption |-> [start |-> iv[1], duration |-> iv[2] - iv[1], text |-> CaptionTexts[k]]]

InitFuse ==
    /\ \E na \in 0..MaxInputs :
          /\ audioSegments \in [1..na -> AudioSegmentInputs]
          /\ \E nr \in 0..(MaxInputs - na) :
                \E f \in [1..nr -> FuseIntervals \X RelevanceScores] :
                    captionAnalysisResults =
                        [k \in 1..nr |-> ResultInput(k, f[k][1], f[k][2])]
    /\ enhancedBuilt = <<>>
    /\ enhanced = <<>>
    /\ fusePc = "idle"

Fuse ==
    /\ fusePc = "idle"
    /\ enhancedBuilt' = enhancedSegmentsBuilt(audioSegments, captionAnalysisResults)
    /\ enhanced' = sortByCombinedScore(enhancedBuilt')
    /\ fusePc' = "done"
    /\ UNCHANGED <<audioSegments, captionAnalysisResults>>

----------------------------------------------------------------------------
(* CaptionScraper.groupCaptionsIntoSegments.  Times are in seconds; a text *)
(* is a sequence of characters.                                            *)

flushNeeded_NoContentCheck(currentSegment, caption, window) ==
    currentSegment.duration + caption.duration > window

flushNeeded_IgnoresAccumulated(currentSegment, caption, window) ==
    /\ currentSegment.duration > 0
    /\ caption.duration > window

\* The condition of lines 137-138
flushNeeded(currentSegment, caption, window) ==
    /\ currentSegment.duration > 0
    /\ currentSegment.duration + caption.duration > window

newSegment_StartsAtEnd(caption) ==
    [start |-> caption.start + caption.duration, duration |-> caption.duration,
     text |-> caption.text]

\* The accumulator after a flush, lines 140-144
newSegment(caption) ==
    [start |-> caption.start, duration |-> caption.duration, text |-> caption.text]

\* The merge of lines 146-148
mergeCaption(currentSegment, caption) ==
    [currentSegment EXCEPT !.duration = @ + caption.duration,
                           !.text = @ \o <<" ">> \o caption.text]

\* The for loop of lines 135-150 from caption i on
RECURSIVE groupLoop(_, _, _, _, _)
groupLoop(caps, window, i, currentSegment, segs) ==
    IF i > Len(caps) THEN [currentSegment |-> currentSegment, segments |-> segs]
    ELSE LET caption == caps[i]
         IN  IF flushNeeded(currentSegment, caption, window)
             THEN groupLoop(caps, window, i + 1, newSegment(caption),
                            Append(segs, currentSegment))
             ELSE groupLoop(caps, window, i + 1, mergeCaption(currentSegment, caption),
                            segs)

groupCaptionsIntoSegments_DropsLast(caps, window) ==
    IF Len(caps) = 0 THEN <<>>
    ELSE groupLoop(caps, window, 1,
                   [start |-> caps[1].start, duration |-> 0, text |-> <<>>], <<>>).segments

groupCaptionsIntoSegments(caps, window) ==
    IF Len(caps) = 0 THEN <<>>
    ELSE LET g == groupLoop(caps, window, 1,
                      [start |-> caps[1].start, duration |-> 0, text |-> <<>>], <<>>)
         IN  IF g.currentSegment.duration > 0
             THEN Append(g.segments, g.currentSegment)
             ELSE g.segments

Windows == (-1)..(MaxCaptionTime + 1)

\* Captions ordered by start, the k-th with the text CaptionTexts[k]; a duration
\* of 0 is what parseXmlCaptions yields for a <text> without dur
\* The call of the spec's scenario A: three captions of 5 s, window 8
ScenarioACaptions ==
    [k \in 1..3 |-> [start |-> 5 * (k - 1), duration |-> 5, text |-> CaptionTexts[k]]]

InitGroup ==
    /\ \/ \E m \in 0..MaxCaptions :
             \E f \in [1..m -> (0..MaxCaptionTime) \X (0..MaxCaptionTime)] :
                /\ \A k \in 1..(m - 1) : f[k][1] <= f[k + 1][1]
                /\ captions = [k \in 1..m |-> [start |-> f[k][1], duration |-> f[k][2],
                                                text |-> CaptionTexts[k]]]
                /\ segmentDuration \in Windows
       \/ captions = ScenarioACaptions /\ segmentDuration = 8
    /\ grouped = <<>>
    /\ groupThrew = FALSE
    /\ groupPc = "idle"

\* One call groupCaptionsIntoSegments(captions, segmentDuration); the function has
\* no throw statement and validates nothing, so every call returns.
Group ==
    /\ groupPc = "idle"
    /\ grouped' = groupCaptionsIntoSegments(captions, segmentDuration)
    /\ groupThrew' = FALSE
    /\ groupPc' = "done"
    /\ UNCHANGED <<captions, segmentDuration>>

----------------------------------------------------------------------------
(* CaptionAnalyzer.analyzeMultipleSegments and analyzeViralPotential.  A   *)
(* call of analyzeViralPotential is in flight from its axios.post to the   *)
(* settlement of its promise; times are in ms.                             *)

batchSize == 3

interBatchDelay == 1000

\* The scores the scorer answers with in analyzeMultipleSegments; nothing
\* binds the scorer to the 0..1 the prompt asks for
ResponseScores == {Rat(1, 2), Rat(3, 2)}

\* The fields of the answer's content: a field is missing, or holds a value
\* of the expected type ("number", "array", "string"), or holds text
numberField(v) == [kind |-> "number", value |-> v]
arrayField(a) == [kind |-> "array", value |-> a]
stringField(t) == [kind |-> "string", value |-> t]
missingNumber == [kind |-> "missing", value |-> Rat(0, 1)]
missingArray == [kind |-> "missing", value |-> <<>>]
missingString == [kind |-> "missing", value |-> ""]

\* What the scorer does with a request: the request fails ("error"), or the
\* answer's content is not JSON ("garbage"), or it is the JSON null ("null"),
\* or it is a JSON object, as text ("json") or already parsed ("object")
Response(kind, score, reasons, emotions, keywords, summary) ==
    [kind |-> kind, score |-> score, reasons |-> reasons, emotions |-> emotions,
     keywords |-> keywords, summary |-> summary]

emptyResponse(kind) ==
    Response(kind, missingNumber, missingArray, missingArray, missingArray, missingString)

Responses ==
    {emptyResponse("error"), emptyResponse("garbage")}
    \cup {Response("json", numberField(sc), arrayField(<<"hook">>), arrayField(<<>>),
                    arrayField(<<>>), stringField("summary")) : sc \in ResponseScores}

NoResponse == emptyResponse("none")

\* parseFloat(result.score): the number, the number a text starts with
\* ("numeral"), or NaN
parseFloat(field) ==
    IF field.kind \in {"number", "numeral"} THEN field.value ELSE NaN

arrayOrEmpty_PassThrough(field) == field.value

\* Array.isArray(x) ? x : []
arrayOrEmpty(field) == IF field.kind = "array" THEN field.value ELSE <<>>

\* JSON.parse throws on content that is not JSON and reading a property of
\* null throws: the catch of lines 174-183.  The object branch (154-163) and
\* the JSON.parse branch (166-173) build the same record; in x || 0 NaN and 0
\* are falsy, in x || '' undefined and '' are.
parseAnalysisResult(response) ==
    IF response.kind \in {"garbage", "null"}
    THEN [score |-> Rat(0, 1), reasons |-> <<"Error parsing analysis result">>,
          emotions |-> <<>>, keywords |-> <<>>, summary |-> "Failed to parse analysis"]
    ELSE LET number == parseFloat(response.score)
         IN  [score |-> IF number = NaN \/ number.num = 0 THEN Rat(0, 1) ELSE number,
              reasons |-> arrayOrEmpty(response.reasons),
              emotions |-> arrayOrEmpty(response.emotions),
              keywords |-> arrayOrEmpty(response.keywords),
              summary |-> IF response.summary.kind = "string"
                          THEN response.summary.value ELSE ""]

analyzeViralPotential_NoReason(response) ==
    IF response.kind = "error"
    THEN [score |-> Rat(0, 1), reasons |-> <<>>,
          emotions |-> <<>>, keywords |-> <<>>, summary |-> "Analysis failed"]
    ELSE parseAnalysisResult(response)

\* The value analyzeViralPotential resolves with; a rejected axios.post lands
\* in the catch of lines 71-79
analyzeViralPotential(response) ==
    IF response.kind = "error"
    THEN [score |-> Rat(0, 1), reasons |-> <<"Error analyzing content">>,
          emotions |-> <<>>, keywords |-> <<>>, summary |-> "Analysis failed"]
    ELSE parseAnalysisResult(response)

\* { ...analysis, caption } of lines 95-98
withCaption(analysis, caption) ==
    [score |-> analysis.score, reasons |-> analysis.reasons,
     emotions |-> analysis.emotions, keywords |-> analysis.keywords,
     summary |-> analysis.summary, caption |-> caption]

NoResult == withCaption(analyzeViralPotential(NoResponse), [start |-> 0, duration |-> 0, text |-> <<>>])

batchIndices_ToTheEnd(i, n) == {k \in 1..n : i < k}

\* The (1-based) positions of captions.slice(i, i + batchSize)
batchIndices(i, n) == {k \in 1..n : i < k /\ k <= i + batchSize}

\* batch.map(...): every call of the batch is issued before the first await
issueBatch(cs, i) ==
    [k \in 1..Len(cs) |->
        IF k \in batchIndices(i, Len(cs)) THEN [cs[k] EXCEPT !.state = "inflight"]
        ELSE cs[k]]

batchResults_CaptionsShifted(cs, i) ==
    LET size == Cardinality(batchIndices(i, Len(cs)))
    IN  [j \in 1..size |-> withCaption(cs[i + j].result, cs[i + (j % size) + 1].result.caption)]

\* What Promise.all resolves with: the results in the order of the batch
batchResults(cs, i) ==
    [j \in 1..Cardinality(batchIndices(i, Len(cs))) |-> cs[i + j].result]

delayNeeded_AfterEveryBatch(i, n) == i + batchSize <= n

\* The condition of line 107
delayNeeded(i, n) == i + batchSize < n

sortByScore_Unsorted(res) == res

\* results.sort((a, b) => b.score - a.score)
sortByScore(res) == sortDescending(res, [k \in 1..Len(res) |-> res[k].score])

\* The for statement of line 92 with i and the results so far: the next batch
\* is issued, or the loop ends and the sorted results are returned
enterLoop(i, res) ==
    /\ scoreI' = i
    /\ scoreResults' = res
    /\ IF i < Len(scoreCaptions)
       THEN /\ calls' = issueBatch(calls, i)
            /\ scorePc' = "await"
            /\ UNCHANGED scoreReturned
       ELSE /\ scoreReturned' = sortByScore(res)
            /\ scorePc' = "done"
            /\ UNCHANGED calls

\* the other components, which a call of analyzeMultipleSegments leaves alone
scoreOthers == <<detectVars, fuseVars, groupVars, clipVars, sliceVars, filterVars, parseVars, compileVars>>

InitScore ==
    /\ \E n \in 0..MaxScored :
          /\ scoreCaptions = [k \in 1..n |-> [start |-> k - 1, duration |-> 1,
                                               text |-> CaptionTexts[k]]]
          /\ calls = [k \in 1..n |-> [state |-> "waiting", response |-> NoResponse,
                                       result |-> NoResult]]
    /\ scoreI = 0
    /\ scoreResults = <<>>
    /\ delays = <<>>
    /\ elapsed = 0
    /\ scoreReturned = <<>>
    /\ scoreThrew = FALSE
    /\ scorePc = "idle"

\* analyzeMultipleSegments(captions) up to its first await
ScoreStart ==
    /\ scorePc = "idle"
    /\ enterLoop(0, <<>>)
    /\ UNCHANGED <<scoreCaptions, delays, elapsed, scoreThrew>>
    /\ UNCHANGED scoreOthers

\* One call of analyzeViralPotential settles; it never rejects.
ScoreCallSettles ==
    /\ scorePc = "await"
    /\ \E k \in 1..Len(calls), response \in Responses :
          /\ calls[k].state = "inflight"
          /\ calls' = [calls EXCEPT ![k] =
                          [state |-> "settled", response |-> response,
                           result |-> withCaption(analyzeViralPotential(response),
                                                  scoreCaptions[k])]]
    /\ UNCHANGED <<scoreCaptions, scoreI, scoreResults, delays, elapsed, scoreReturned,
                   scoreThrew, scorePc>>
    /\ UNCHANGED scoreOthers

BatchTimes == {0, 500}

\* Promise.all(batchPromises) resolves, some time after the batch was issued:
\* lines 102-109
ScoreBatchDone ==
    /\ scorePc = "await"
    /\ \A k \in batchIndices(scoreI, Len(calls)) : calls[k].state = "settled"
    /\ \E t \in BatchTimes : elapsed' = elapsed + t
    /\ IF delayNeeded(scoreI, Len(scoreCaptions))
       THEN /\ scoreResults' = scoreResults \o batchResults(calls, scoreI)
            /\ scorePc' = "sleep"
            /\ UNCHANGED <<scoreI, calls, scoreReturned>>
       ELSE enterLoop(scoreI + batchSize, scoreResults \o batchResults(calls, scoreI))
    /\ UNCHANGED <<scoreCaptions, delays, scoreThrew>>
    /\ UNCHANGED scoreOthers

\* The timer of line 108 fires and the loop goes on
ScoreSleepEnds ==
    /\ scorePc = "sleep"
    /\ delays' = Append(delays, interBatchDelay)
    /\ elapsed' = elapsed + interBatchDelay
    /\ enterLoop(scoreI + batchSize, scoreResults)
    /\ UNCHANGED <<scoreCaptions, scoreThrew>>
    /\ UNCHANGED scoreOthers

analyzeMultipleSegments ==
    \/ ScoreStart
    \/ ScoreCallSettles
    \/ ScoreBatchDone
    \/ ScoreSleepEnds

----------------------------------------------------------------------------
(* VideoClipper.clipMultipleSegments and clipSegment.  Segment times are   *)
(* in half seconds, Date.now() in ms.                                      *)

\* Math.floor of a time, in seconds
Floor(t) == t \div 2

\* outputPath '' of the catch block
NoPath == [base |-> "", part |-> 0, start |-> 0, end |-> 0, stamp |-> 0]

\* The output file name of the segment clipped as part i (lines 172-174 and
\* 80-86): <baseFilename>_part<i>, or clip_<start>_<end>_<Date.now()>
outputPath(segment, base, i, t) ==
    IF base # ""
    THEN [base |-> base, part |-> i, start |-> 0, end |-> 0, stamp |-> 0]
    ELSE [base |-> "clip", part |-> 0, start |-> Floor(segment.start),
          end |-> Floor(segment.end), stamp |-> t]

\* The ClipResult of the catch block, lines 144-153
clipNotStarted(segment) ==
    [outputPath |-> NoPath, segment |-> segment, duration |-> segment.end - segment.start,
     success |-> FALSE, error |-> "Video file not found"]

\* The ClipResult of the 'end' and 'error' events, lines 123-141
clipRendered(segment, path, ok) ==
    [outputPath |-> path, segment |-> segment, duration |-> segment.end - segment.start,
     success |-> ok, error |-> IF ok THEN "" ELSE "ffmpeg error"]

NotRunning == [index |-> 0, outputPath |-> NoPath]

pushResult_SkipsFailed(res, result) ==
    IF result.success THEN Append(res, result) ELSE res

\* results.push(result)
pushResult(res, result) == Append(res, result)

\* The for statement of line 170 with i and the results so far: clipSegment is
\* called for segments[i] and awaited, or the results are returned
enterClipLoop(i, res) ==
    /\ clipI' = i
    /\ clipResults' = res
    /\ IF i < Len(clipSegments)
       THEN /\ clipRunning' =
                  [index |-> i + 1,
                   outputPath |-> IF clipVideoExists
                                  THEN outputPath(clipSegments[i + 1], baseFilename, i + 1, now')
                                  ELSE NoPath]
            /\ clipPc' = "await"
            /\ UNCHANGED clipReturned
       ELSE /\ clipRunning' = NotRunning
            /\ clipReturned' = res
            /\ clipPc' = "done"

ClipSegmentInputs ==
    {[start |-> s, end |-> e, score |-> Rat(1, 2), type |-> "speech"] :
        s \in {0, 1}, e \in {2, 3}}

\* the other components, which a call of clipMultipleSegments leaves alone
clipOthers == <<detectVars, fuseVars, groupVars, scoreVars, sliceVars, filterVars, parseVars, compileVars>>

InitClip ==
    /\ clipVideoExists \in BOOLEAN
    /\ \E n \in 0..MaxClips : clipSegments \in [1..n -> ClipSegmentInputs]
    /\ baseFilename \in {"", "reel"}
    /\ clipI = 0
    /\ clipResults = <<>>
    /\ clipRunning = NotRunning
    /\ renders = <<>>
    /\ now = 0
    /\ clipReturned = <<>>
    /\ clipPc = "idle"

\* clipMultipleSegments(videoPath, segments, baseFilename) up to its first await
ClipStart ==
    /\ clipPc = "idle"
    /\ now' = now
    /\ enterClipLoop(0, <<>>)
    /\ UNCHANGED <<clipVideoExists, clipSegments, baseFilename, renders>>
    /\ UNCHANGED clipOthers

\* The awaited clipSegment settles: with the result of the catch block when
\* the video is missing, else with that of ffmpeg's 'end' or 'error' event;
\* then lines 177 and 170.
ClipSettles ==
    /\ clipPc = "await"
    /\ \E dt \in {0, 1} : now' = now + dt
    /\ LET segment == clipSegments[clipRunning.index]
       IN  IF ~clipVideoExists
           THEN /\ enterClipLoop(clipI + 1, pushResult(clipResults, clipNotStarted(segment)))
                /\ UNCHANGED renders
           ELSE \E ok \in BOOLEAN :
                  /\ renders' = Append(renders, [index |-> clipRunning.index, ok |-> ok])
                  /\ enterClipLoop(clipI + 1,
                         pushResult(clipResults,
                                    clipRendered(segment, clipRunning.outputPath, ok)))
    /\ UNCHANGED <<clipVideoExists, clipSegments, baseFilename>>
    /\ UNCHANGED clipOthers

clipMultipleSegments ==
    \/ ClipStart
    \/ ClipSettles

----------------------------------------------------------------------------
(* RemotionClipper: the selection, the caption filter of handleRenderClip  *)
(* and of the preview, and the render request.  Captions here carry start  *)
(* and end, in seconds.                                                    *)

NoSelection == [set |-> FALSE, start |-> 0, end |-> 0]

NoRequest == [sent |-> FALSE, startTime |-> 0, endTime |-> 0, captions |-> <<>>]

\* The filter condition of lines 44-46 (and 120-122)
captionInSelection(caption, sel) ==
    \/ caption.start >= sel.start /\ caption.start <= sel.end
    \/ caption.end >= sel.start /\ caption.end <= sel.end
    \/ caption.start <= sel.start /\ caption.end >= sel.end

\* captions.filter(...) of lines 43-47
segmentCaptions(caps, sel) == SelectSeq(caps, LAMBDA c : captionInSelection(c, sel))

\* The captions handed to VideoPreview, lines 119-123
previewCaptions == segmentCaptions(sliceCaptions, selectedSegment)

SliceIntervals ==
    {<<a, b>> \in (0..MaxSliceTime) \X (0..MaxSliceTime) : a < b}

\* the other components, which RemotionClipper leaves alone
sliceOthers == <<detectVars, fuseVars, groupVars, scoreVars, clipVars, filterVars, parseVars, compileVars>>

InitSlice ==
    /\ \E n \in 0..MaxSliceCaptions :
          \E f \in [1..n -> SliceIntervals] :
              sliceCaptions = [k \in 1..n |-> [start |-> f[k][1], end |-> f[k][2],
                                               text |-> CaptionTexts[k]]]
    /\ selectedSegment = NoSelection
    /\ isRendering = FALSE
    /\ renderRequest = NoRequest
    /\ clipUrl = FALSE
    /\ renderError = FALSE
    /\ slicePc = "idle"

\* handleSegmentSelect(start, end), lines 31-33
handleSegmentSelect ==
    /\ slicePc # "off"
    /\ \E iv \in SliceIntervals :
          selectedSegment' = [set |-> TRUE, start |-> iv[1], end |-> iv[2]]
    /\ UNCHANGED <<sliceCaptions, isRendering, renderRequest, clipUrl, renderError, slicePc>>
    /\ UNCHANGED sliceOthers

\* handleRenderClip up to the await of axios.post (lines 35-59); its button is
\* disabled while isRendering (line 140)
handleRenderClip ==
    /\ slicePc = "idle" /\ ~isRendering
    /\ IF ~selectedSegment.set
       THEN UNCHANGED <<isRendering, renderRequest, renderError, slicePc>>
       ELSE /\ isRendering' = TRUE
            /\ renderError' = FALSE
            /\ renderRequest' =
                  [sent |-> TRUE, startTime |-> selectedSegment.start,
                   endTime |-> selectedSegment.end,
                   captions |-> segmentCaptions(sliceCaptions, selectedSegment)]
            /\ slicePc' = "posted"
    /\ UNCHANGED <<sliceCaptions, selectedSegment, clipUrl>>
    /\ UNCHANGED sliceOthers

\* The request settles: lines 67-76, or the catch of lines 77-81
renderSettles ==
    /\ slicePc = "posted"
    /\ \E ok \in BOOLEAN :
          IF ok THEN clipUrl' = TRUE /\ UNCHANGED renderError
          ELSE renderError' = TRUE /\ UNCHANGED clipUrl
    /\ isRendering' = FALSE
    /\ slicePc' = "idle"
    /\ UNCHANGED <<sliceCaptions, selectedSegment, renderRequest>>
    /\ UNCHANGED sliceOthers

RemotionClipper ==
    \/ handleSegmentSelect
    \/ handleRenderClip
    \/ renderSettles

----------------------------------------------------------------------------
(* EnhancedViralDetector.filterSegmentsByDuration.  Times are in seconds.  *)

\* A parameter with a default value: the default stands in for undefined
paramOrDefault(arg, default) == IF arg.given THEN arg.value ELSE default

withinDuration_StrictMin(segment, minD, maxD) ==
    LET duration == segment.end - segment.start
    IN  duration > minD /\ duration <= maxD

\* The filter callback of lines 380-383
withinDuration(segment, minD, maxD) ==
    LET duration == segment.end - segment.start
    IN  duration >= minD /\ duration <= maxD

filterSegmentsByDuration(segs, minArg, maxArg) ==
    LET minD == paramOrDefault(minArg, 5)
        maxD == paramOrDefault(maxArg, 60)
    IN  SelectSeq(segs, LAMBDA segment : withinDuration(segment, minD, maxD))

\* Segment times (s) whose differences fall on, inside and outside the default
\* bounds: 0, 1, 5, 60, 61, 65 and 66 seconds
FilterIntervals == {<<a, b>> \in {0, 5, 65, 66} \X {0, 5, 65, 66} : a <= b}

DurationArguments ==
    {[given |-> FALSE, value |-> 0]}
    \cup {[given |-> TRUE, value |-> v] : v \in {0, 5, 61}}

\* the other components, which filterSegmentsByDuration leaves alone
filterOthers == <<detectVars, fuseVars, groupVars, scoreVars, clipVars, sliceVars, parseVars, compileVars>>

\* The k-th segment carries CaptionTexts[k] as its captionText
InitFilter ==
    /\ \E n \in 0..MaxFiltered :
          \E f \in [1..n -> FilterIntervals] :
              filterSegments =
                  [k \in 1..n |-> [start |-> f[k][1], end |-> f[k][2], score |-> Rat(1, 2),
                                   type |-> "speech", captionText |-> CaptionTexts[k],
                                   combinedScore |-> Rat(1, 2)]]
    /\ minDuration \in DurationArguments
    /\ maxDuration \in DurationArguments
    /\ filteredOnce = <<>>
    /\ filteredTwice = <<>>
    /\ filterPc = "idle"

\* filterSegmentsByDuration(segments, minDuration, maxDuration)
FilterOnce ==
    /\ filterPc = "idle"
    /\ filteredOnce' = filterSegmentsByDuration(filterSegments, minDuration, maxDuration)
    /\ filterPc' = "once"
    /\ UNCHANGED <<filterSegments, minDuration, maxDuration, filteredTwice>>
    /\ UNCHANGED filterOthers

\* filterSegmentsByDuration on the value of the first call, same bounds
FilterAgain ==
    /\ filterPc = "once"
    /\ filteredTwice' = filterSegmentsByDuration(filteredOnce, minDuration, maxDuration)
    /\ filterPc' = "twice"
    /\ UNCHANGED <<filterSegments, minDuration, maxDuration, filteredOnce>>
    /\ UNCHANGED filterOthers

----------------------------------------------------------------------------
(* One call of CaptionAnalyzer.analyzeViralPotential, over every shape of  *)
(* the scorer's answer.                                                    *)

ArrayFields(word) ==
    {missingArray, [kind |-> "text", value |-> <<word>>], arrayField(<<>>), arrayField(<<word>>)}

\* The request fails, or the content is not JSON, or null, or an object whose
\* score is missing, text, a numeral in a text or a number, whose arrays are
\* missing, text or arrays and whose summary is missing, empty or a text
ParseResponses ==
    {emptyResponse("error"), emptyResponse("garbage"), emptyResponse("null")}
    \cup {Response(kind, sc, re, em, kw, su) :
             kind \in {"json", "object"},
             sc \in {missingNumber, [kind |-> "text", value |-> Rat(0, 1)],
                     [kind |-> "numeral", value |-> Rat(1, 2)]}
                    \cup {numberField(v) : v \in {Rat(0, 1), Rat(1, 2), Rat(3, 2), Rat(-1, 2)}},
             re \in ArrayFields("hook"), em \in ArrayFields("joy"), kw \in ArrayFields("viral"),
             su \in {missingString, stringField(""), stringField("summary")}}

InitParse ==
    /\ scorerResponse \in ParseResponses
    /\ parsedResult = analyzeViralPotential(NoResponse)
    /\ parsePc = "idle"

\* analyzeViralPotential(captionText), from the request to the returned value
Parse ==
    /\ parsePc = "idle"
    /\ parsedResult' = analyzeViralPotential(scorerResponse)
    /\ parsePc' = "done"
    /\ UNCHANGED scorerResponse
    /\ UNCHANGED <<detectVars, fuseVars, groupVars, scoreVars, clipVars, sliceVars, filterVars,
                   compileVars>>

----------------------------------------------------------------------------
(* VideoClipper.createCompilation, called twice on clippers with the same  *)
(* outputDir.  A call runs without interruption from its entry to          *)
(* ffmpeg().run(); its ffmpeg process and the 'end' and 'error' handlers   *)
(* run later, interleaved with the other call.                             *)

Callers == {1, 2}

ClipFiles == {"a.mp4", "b.mp4"}

\* clips_list.txt is absent
NoList == [exists |-> FALSE, content |-> <<>>, writer |-> 0]

\* fs.writeFileSync(listFilePath, listContent) of lines 204-206
writeFileSync(content, c) == [exists |-> TRUE, content |-> content, writer |-> c]

\* The checks of lines 194-203
clipsUsable(clipPaths, existing) ==
    /\ Len(clipPaths) # 0
    /\ \A k \in 1..Len(clipPaths) : clipPaths[k] \in existing

\* the other components, which createCompilation leaves alone
compileOthers == <<detectVars, fuseVars, groupVars, scoreVars, clipVars, sliceVars,
                   filterVars, parseVars>>

InitCompile ==
    /\ \E n1, n2 \in 0..MaxCompiled :
          \E f1 \in [1..n1 -> ClipFiles], f2 \in [1..n2 -> ClipFiles] :
              clipPathsOf = <<f1, f2>>
    /\ existingClips \in SUBSET ClipFiles
    /\ listFile = NoList
    /\ ffmpegInput = [c \in Callers |-> NoList]
    /\ compilePc = [c \in Callers |-> "idle"]

\* A throw of lines 194-203: the catch returns null
CompileRefuses(c) ==
    /\ compilePc[c] = "idle"
    /\ ~clipsUsable(clipPathsOf[c], existingClips)
    /\ compilePc' = [compilePc EXCEPT ![c] = "null"]
    /\ UNCHANGED <<clipPathsOf, existingClips, listFile, ffmpegInput>>
    /\ UNCHANGED compileOthers

\* Lines 204-231: the list file is written and ffmpeg is started
CompileStarts(c) ==
    /\ compilePc[c] = "idle"
    /\ clipsUsable(clipPathsOf[c], existingClips)
    /\ listFile' = writeFileSync(clipPathsOf[c], c)
    /\ compilePc' = [compilePc EXCEPT ![c] = "started"]
    /\ UNCHANGED <<clipPathsOf, existingClips, ffmpegInput>>
    /\ UNCHANGED compileOthers

\* The ffmpeg process of call c opens its input, the file at listFilePath
FfmpegReadsList(c) ==
    /\ compilePc[c] = "started"
    /\ listFile.exists
    /\ ffmpegInput' = [ffmpegInput EXCEPT ![c] = listFile]
    /\ compilePc' = [compilePc EXCEPT ![c] = "concatenating"]
    /\ UNCHANGED <<clipPathsOf, existingClips, listFile>>
    /\ UNCHANGED compileOthers

\* The 'end' handler of lines 218-222: unlinkSync throws where the file is
\* gone, and resolve is not reached
CompileEnds(c) ==
    /\ compilePc[c] = "concatenating"
    /\ IF listFile.exists
       THEN listFile' = NoList /\ compilePc' = [compilePc EXCEPT ![c] = "resolved"]
       ELSE listFile' = listFile /\ compilePc' = [compilePc EXCEPT ![c] = "threw"]
    /\ UNCHANGED <<clipPathsOf, existingClips, ffmpegInput>>
    /\ UNCHANGED compileOthers

\* The 'error' handler of lines 223-230; ffmpeg fails where it cannot open
\* its input, and may fail at any time
CompileFails(c) ==
    /\ compilePc[c] \in {"started", "concatenating"}
    /\ listFile' = NoList
    /\ compilePc' = [compilePc EXCEPT ![c] = "rejected"]
    /\ UNCHANGED <<clipPathsOf, existingClips, ffmpegInput>>
    /\ UNCHANGED compileOthers

createCompilation ==
    \/ \E c \in Callers : CompileRefuses(c)
    \/ \E c \in Callers : CompileStarts(c)
    \/ \E c \in Callers : FfmpegReadsList(c)
    \/ \E c \in Callers : CompileEnds(c)
    \/ \E c \in Callers : CompileFails(c)

----------------------------------------------------------------------------
(* Specifications.  The components share no state; each specification     *)
(* exercises one of them and keeps the others switched off.                *)

IdleDetect ==
    /\ options = constructor([minSegmentDuration |-> 0, maxSegmentDuration |-> 0,
                              energyThreshold |-> 0, speechRateThreshold |-> 0])
    /\ videoExists = FALSE /\ extractFails = FALSE /\ probeFails = FALSE
    /\ audioDuration = 0 /\ energyLevels = <<>> /\ audioFileExists = FALSE
    /\ detected = <<>> /\ detectThrew = FALSE /\ detectPc = "off"

IdleFuse ==
    /\ audioSegments = <<>> /\ captionAnalysisResults = <<>>
    /\ enhancedBuilt = <<>> /\ enhanced = <<>> /\ fusePc = "off"

IdleGroup ==
    /\ captions = <<>> /\ segmentDuration = 0 /\ grouped = <<>>
    /\ groupThrew = FALSE /\ groupPc = "off"

NextDetect == detectViralSegments

IdleScore ==
    /\ scoreCaptions = <<>> /\ calls = <<>> /\ scoreI = 0 /\ scoreResults = <<>>
    /\ delays = <<>> /\ elapsed = 0 /\ scoreReturned = <<>> /\ scoreThrew = FALSE
    /\ scorePc = "off"

IdleClip ==
    /\ clipVideoExists = FALSE /\ clipSegments = <<>> /\ baseFilename = ""
    /\ clipI = 0 /\ clipResults = <<>> /\ clipRunning = NotRunning /\ renders = <<>>
    /\ now = 0
    /\ clipReturned = <<>> /\ clipPc = "off"

IdleSlice ==
    /\ sliceCaptions = <<>> /\ selectedSegment = NoSelection /\ isRendering = FALSE
    /\ renderRequest = NoRequest /\ clipUrl = FALSE /\ renderError = FALSE
    /\ slicePc = "off"

IdleFilter ==
    /\ filterSegments = <<>> /\ minDuration = [given |-> FALSE, value |-> 0]
    /\ maxDuration = [given |-> FALSE, value |-> 0] /\ filteredOnce = <<>>
    /\ filteredTwice = <<>> /\ filterPc = "off"

IdleParse ==
    /\ scorerResponse = NoResponse /\ parsedResult = analyzeViralPotential(NoResponse)
    /\ parsePc = "off"

IdleCompile ==
    /\ clipPathsOf = <<>> /\ existingClips = {} /\ listFile = NoList
    /\ ffmpegInput = [c \in Callers |-> NoList] /\ compilePc = [c \in Callers |-> "off"]

NextFuse == Fuse /\ UNCHANGED <<detectVars, groupVars, scoreVars, clipVars, sliceVars, filterVars, parseVars, compileVars>>

NextGroup == Group /\ UNCHANGED <<detectVars, fuseVars, scoreVars, clipVars, sliceVars, filterVars, parseVars, compileVars>>

NextClip == clipMultipleSegments

NextSlice == RemotionClipper

NextScore == analyzeMultipleSegments

NextFilter == FilterOnce \/ FilterAgain

NextCompile == createCompilation

DetectInit == InitDetect /\ IdleFuse /\ IdleGroup /\ IdleScore /\ IdleClip /\ IdleSlice /\ IdleFilter /\ IdleParse /\ IdleCompile

FuseInit == IdleDetect /\ InitFuse /\ IdleGroup /\ IdleScore /\ IdleClip /\ IdleSlice /\ IdleFilter /\ IdleParse /\ IdleCompile

GroupInit == IdleDetect /\ IdleFuse /\ InitGroup /\ IdleScore /\ IdleClip /\ IdleSlice /\ IdleFilter /\ IdleParse /\ IdleCompile

ScoreInit == IdleDetect /\ IdleFuse /\ IdleGroup /\ InitScore /\ IdleClip /\ IdleSlice /\ IdleFilter /\ IdleParse /\ IdleCompile

ClipInit == IdleDetect /\ IdleFuse /\ IdleGroup /\ IdleScore /\ InitClip /\ IdleSlice /\ IdleFilter /\ IdleParse /\ IdleCompile

SliceInit == IdleDetect /\ IdleFuse /\ IdleGroup /\ IdleScore /\ IdleClip /\ InitSlice /\ IdleFilter /\ IdleParse /\ IdleCompile

FilterInit == IdleDetect /\ IdleFuse /\ IdleGroup /\ IdleScore /\ IdleClip /\ IdleSlice /\ InitFilter /\ IdleParse /\ IdleCompile

ParseInit == IdleDetect /\ IdleFuse /\ IdleGroup /\ IdleScore /\ IdleClip /\ IdleSlice /\ IdleFilter /\ InitParse /\ IdleCompile

CompileInit == IdleDetect /\ IdleFuse /\ IdleGroup /\ IdleScore /\ IdleClip /\ IdleSlice /\ IdleFilter /\ IdleParse /\ InitCompile

SpecDetect == DetectInit /\ [][NextDetect]_vars

SpecFuse == FuseInit /\ [][NextFuse]_vars

SpecGroup == GroupInit /\ [][NextGroup]_vars

SpecScore == ScoreInit /\ [][NextScore]_vars

SpecClip == ClipInit /\ [][NextClip]_vars

SpecSlice == SliceInit /\ [][NextSlice]_vars

SpecFilter == FilterInit /\ [][NextFilter]_vars

SpecParse == ParseInit /\ [][Parse]_vars

SpecCompile == CompileInit /\ [][NextCompile]_vars

Init == DetectInit \/ FuseInit \/ GroupInit \/ ScoreInit \/ ClipInit \/ SliceInit \/ FilterInit \/ ParseInit \/ CompileInit

Next == NextDetect \/ NextFuse \/ NextGroup \/ NextScore \/ NextClip \/ NextSlice \/ NextFilter \/ Parse \/ NextCompile

Spec == Init /\ [][Next]_vars

----------------------------------------------------------------------------
(* Claims about detect (SpecDetect) *)

\* C1: every segment detectViralSegments returns lasts at least
\* minSegmentDuration and at most maxSegmentDuration, whether a low-energy
\* sample closed it or the end of the audio did.
C1_DetectedWithinDuration ==
    \A k \in 1..Len(detected) :
        LET n == Len(energyLevels)
            duration == detected[k].end - detected[k].start
        IN  /\ options.minSegmentDuration * n <= duration
            /\ duration <= options.maxSegmentDuration * n

\* one returned segment was closed by a low sample, another by the end of the audio
C1_Witness ==
    /\ detectPc = "done" /\ audioDuration > 0
    /\ \E k \in 1..Len(detected) : detected[k].end = audioDuration * Len(energyLevels)
    /\ \E k \in 1..Len(detected) : detected[k].end < audioDuration * Len(energyLevels)

\* Sample i (1-based) is above the threshold
High(i) == energyLevels[i] > options.energyThreshold

\* Samples i..j are a maximal run of samples above the threshold
MaximalRun(i, j) ==
    /\ i <= j
    /\ \A k \in i..j : High(k)
    /\ i = 1 \/ ~High(i - 1)
    /\ j = Len(energyLevels) \/ ~High(j + 1)

\* The candidates of the two-state machine: one for every maximal run, from the
\* time of its first sample to the time of the sample after its last one, which
\* is the end of the audio for a run that reaches the last sample (in ticks)
Candidates ==
    {[start |-> (i - 1) * audioDuration, end |-> j * audioDuration] :
        <<i, j>> \in {r \in (1..Len(energyLevels)) \X (1..Len(energyLevels)) : MaximalRun(r[1], r[2])}}

KeptCandidates ==
    {c \in Candidates :
        /\ options.minSegmentDuration * Len(energyLevels) <= c.end - c.start
        /\ c.end - c.start <= options.maxSegmentDuration * Len(energyLevels)}

DetectedIntervals ==
    {[start |-> detected[k].start, end |-> detected[k].end] : k \in 1..Len(detected)}

\* C25: the samples are walked in order as a two-state machine: a sample above
\* the threshold opens a candidate at its time while none is open, the first
\* sample at or below the threshold closes it at that sample's time, and a
\* candidate open after the last sample is closed at the end of the audio; so
\* the candidates are the maximal runs, no two of them overlap, and the kept
\* ones are what is returned.
C25_TwoStateMachine ==
    (detectPc = "done" /\ energyLevels # <<>>) =>
        /\ DetectedIntervals = KeptCandidates
        /\ Len(detected) = Cardinality(KeptCandidates)
        /\ \A k \in 1..Len(detected) : detected[k].type = "speech"
        /\ \A c, d \in DetectedIntervals : c = d \/ c.end <= d.start \/ d.end <= c.start

\* A returned segment was closed by a sample equal to the threshold, another
\* by the end of the audio
C25_Witness ==
    /\ detectPc = "done" /\ audioDuration > 0
    /\ \E k \in 1..Len(detected), i \in 1..Len(energyLevels) :
          /\ energyLevels[i] = options.energyThreshold
          /\ detected[k].end = (i - 1) * audioDuration
    /\ \E k \in 1..Len(detected) : detected[k].end = audioDuration * Len(energyLevels)

\* C26: every returned segment has score (durationScore + typeScore) / 2 with
\* durationScore = 1 - |duration - 15| / max(15 - minSegmentDuration,
\* maxSegmentDuration - 15) and typeScore 0.8 for speech, the score lies
\* between 0 and 1, and the segments are returned by score, descending.
C26_ScoreFormulaWithinUnitIntervalSorted ==
    /\ \A k \in 1..Len(detected) :
          LET n == Len(energyLevels)
              duration == detected[k].end - detected[k].start
              maxDistance == Max(15 - options.minSegmentDuration, options.maxSegmentDuration - 15)
              durationScore == RatAdd(Rat(1, 1), Rat(-Abs(duration - 15 * n), maxDistance * n))
              typeScore == IF detected[k].type = "speech" THEN Rat(8, 10) ELSE Rat(4, 10)
          IN  /\ detected[k].score = RatMul(RatAdd(durationScore, typeScore), Rat(1, 2))
              /\ RatLeq(Rat(0, 1), detected[k].score)
              /\ RatLeq(detected[k].score, Rat(1, 1))
    /\ \A k \in 1..(Len(detected) - 1) : RatLeq(detected[k + 1].score, detected[k].score)

----------------------------------------------------------------------------
(* Claims about fuse (SpecFuse) *)

\* The whole seconds of the half-open interval [start, end)
TimesOf(seg) == seg.start..(seg.end - 1)

Intersect(a, b) == TimesOf(a) \cap TimesOf(b) # {}

ResultInterval(j) == captionSegment(captionAnalysisResults[j])

AudioIndices == 1..Len(audioSegments)
ResultIndices == 1..Len(captionAnalysisResults)

\* The part of enhancedBuilt the second loop appended
OrphansBuilt == SubSeq(enhancedBuilt, Len(audioSegments) + 1, Len(enhancedBuilt))

EmittedAsOrphan(j) ==
    \E k \in 1..Len(OrphansBuilt) : OrphansBuilt[k].aiAnalysis = captionAnalysisResults[j]

HighScore(j) == RatLeq(Rat(7, 10), captionAnalysisResults[j].score)

OverlapsNoAudio(j) ==
    \A i \in AudioIndices : ~Intersect(audioSegments[i], ResultInterval(j))

\* C2: when the audio segments given to fuse are pairwise non-overlapping, no
\* two segments of the fused output overlap as half-open intervals.
C2_FusedNonOverlapping ==
    (\A i, j \in AudioIndices : i # j => ~Intersect(audioSegments[i], audioSegments[j]))
    => \A k, l \in 1..Len(enhanced) : k # l => ~Intersect(enhanced[k], enhanced[l])

\* an audio segment and an orphan side by side, a second high-scoring result refused
C2_Witness ==
    /\ fusePc = "done"
    /\ Len(audioSegments) >= 1 /\ Len(OrphansBuilt) >= 1
    /\ \A i, j \in AudioIndices : i # j => ~Intersect(audioSegments[i], audioSegments[j])
    /\ \E j \in ResultIndices : HighScore(j) /\ ~EmittedAsOrphan(j)

\* Scenario B of the spec: one audio segment of score 0.75 and one overlapping
\* result of score 0.9
ScenarioB ==
    combineAudioAndCaptionAnalysis(
        <<[start |-> 100, end |-> 115, score |-> Rat(75, 100), type |-> "speech"]>>,
        <<[score |-> Rat(9, 10),
           caption |-> [start |-> 105, duration |-> 15, text |-> <<"a">>]]>>)

RECURSIVE SumOfScores(_)
SumOfScores(J) ==
    IF J = {} THEN Rat(0, 1)
    ELSE LET j == CHOOSE x \in J : TRUE
         IN  RatAdd(captionAnalysisResults[j].score, SumOfScores(J \ {j}))

OverlappingResults(i) ==
    {j \in ResultIndices : Intersect(audioSegments[i], ResultInterval(j))}

\* C3: the fused segment of audio segment A has combinedScore
\* 0.4 * A.score + 0.6 * mean(scores of the results overlapping A) when a result
\* overlaps A, and 0.7 * A.score with no captionText and no aiAnalysis otherwise;
\* A.score 0.75 with one overlapping result of 0.9 gives 0.84.
C3_CombinedScoreOfAudioSegments ==
    /\ fusePc = "done" =>
        /\ Len(enhancedBuilt) >= Len(audioSegments)
        /\ \A i \in AudioIndices :
            LET A == audioSegments[i]
                F == enhancedBuilt[i]
                O == OverlappingResults(i)
            IN  /\ \E k \in 1..Len(enhanced) : enhanced[k] = F
                /\ F.start = A.start /\ F.end = A.end
                /\ F.score = A.score /\ F.type = A.type
                /\ IF O # {}
                   THEN F.combinedScore =
                            RatAdd(RatMul(Rat(4, 10), A.score),
                                   RatMul(Rat(6, 10),
                                          RatMul(SumOfScores(O), Rat(1, Cardinality(O)))))
                   ELSE /\ F.combinedScore = RatMul(Rat(7, 10), A.score)
                        /\ DOMAIN F = {"start", "end", "score", "type", "combinedScore"}
    /\ Len(ScenarioB) = 1 /\ ScenarioB[1].combinedScore = Rat(84, 100)

\* an audio segment overlapped by two results of different scores
C3_Witness ==
    /\ fusePc = "done"
    /\ \E i \in AudioIndices :
          \E j, k \in OverlappingResults(i) :
              captionAnalysisResults[j].score # captionAnalysisResults[k].score

\* Scenario C of the spec: one result of score 0.85 and no audio segment
ScenarioC ==
    combineAudioAndCaptionAnalysis(<<>>,
        <<[score |-> Rat(85, 100),
           caption |-> [start |-> 3, duration |-> 4, text |-> <<"a">>]]>>)

\* The results the claim expects as orphans: high-scoring, overlapping no audio
\* segment and no orphan expected before them.
RECURSIVE ExpectedOrphan(_)
ExpectedOrphan(j) ==
    /\ HighScore(j)
    /\ OverlapsNoAudio(j)
    /\ \A j0 \in 1..(j - 1) :
          ExpectedOrphan(j0) => ~Intersect(ResultInterval(j0), ResultInterval(j))

\* C4: a result R becomes an orphan fused segment exactly when R.score >= 0.7 and
\* R overlaps no fused segment produced so far (audio-derived ones and earlier
\* orphans); the segment spans R's interval and has score 0.5, type speech and
\* combinedScore 0.8 * R.score (0.85 gives 0.68).
C4_OrphanEmission ==
    /\ fusePc = "done" =>
        /\ \A j \in ResultIndices : EmittedAsOrphan(j) <=> ExpectedOrphan(j)
        /\ Len(OrphansBuilt) = Cardinality({j \in ResultIndices : ExpectedOrphan(j)})
        /\ \A k \in 1..Len(OrphansBuilt) :
              LET F == OrphansBuilt[k]
                  R == F.aiAnalysis
              IN  /\ \E l \in 1..Len(enhanced) : enhanced[l] = F
                  /\ \E j \in ResultIndices : captionAnalysisResults[j] = R
                  /\ F.start = R.caption.start
                  /\ F.end = R.caption.start + R.caption.duration
                  /\ F.score = Rat(1, 2) /\ F.type = "speech"
                  /\ F.combinedScore = RatMul(Rat(8, 10), R.score)
    /\ Len(ScenarioC) = 1
    /\ ScenarioC[1].combinedScore = Rat(68, 100) /\ ScenarioC[1].score = Rat(1, 2)

\* a result of exactly 0.7 is emitted, a high-scoring one is refused because of
\* an earlier orphan, and one below 0.7 that overlaps nothing is not emitted
C4_Witness ==
    /\ fusePc = "done"
    /\ \E j \in ResultIndices :
          captionAnalysisResults[j].score = Rat(7, 10) /\ EmittedAsOrphan(j)
    /\ \E j \in ResultIndices :
          HighScore(j) /\ OverlapsNoAudio(j) /\ ~EmittedAsOrphan(j)
    /\ \E j \in ResultIndices :
          /\ ~HighScore(j) /\ OverlapsNoAudio(j)
          /\ \A k \in 1..Len(OrphansBuilt) : ~Intersect(OrphansBuilt[k], ResultInterval(j))

\* Two high-scoring results that overlap each other and no audio segment
OrphanRivals(j1, j2) ==
    /\ j1 < j2
    /\ HighScore(j1) /\ HighScore(j2)
    /\ Intersect(ResultInterval(j1), ResultInterval(j2))
    /\ OverlapsNoAudio(j1) /\ OverlapsNoAudio(j2)

\* C5 as stated: the orphan step checks overlap only against audio-derived
\* segments, so two high-scoring results that overlap each other and no audio
\* segment are both emitted.
C5_RivalOrphansBothEmitted ==
    fusePc = "done" =>
        \A j1, j2 \in ResultIndices :
            OrphanRivals(j1, j2) => EmittedAsOrphan(j1) /\ EmittedAsOrphan(j2)

\* C5, amended: the orphan step checks overlap against every fused segment
\* produced so far, orphans of the same pass included: of two high-scoring
\* results that overlap each other and no audio segment at most one is emitted,
\* and when no earlier high-scoring result overlaps the first of them it is the
\* first that is emitted.
C5_RivalOrphansNeverBoth ==
    fusePc = "done" =>
        \A j1, j2 \in ResultIndices :
            OrphanRivals(j1, j2) =>
                /\ ~(EmittedAsOrphan(j1) /\ EmittedAsOrphan(j2))
                /\ (\A j0 \in 1..(j1 - 1) :
                        HighScore(j0) => ~Intersect(ResultInterval(j0), ResultInterval(j1)))
                   => EmittedAsOrphan(j1) /\ ~EmittedAsOrphan(j2)

\* two rivals, the first emitted and the second refused
C5_Witness ==
    /\ fusePc = "done"
    /\ \E j1, j2 \in ResultIndices :
          OrphanRivals(j1, j2) /\ EmittedAsOrphan(j1) /\ ~EmittedAsOrphan(j2)

CombinedScores == {enhancedBuilt[k].combinedScore : k \in 1..Len(enhancedBuilt)}

\* C6: the output of fuse is ordered by combinedScore descending and segments
\* of equal combinedScore keep their creation order (audio-derived in input
\* order, then orphans in input order), which fixes the output for given inputs.
C6_SortedStable ==
    fusePc = "done" =>
        /\ Len(enhanced) = Len(enhancedBuilt)
        /\ \A k, l \in 1..Len(enhanced) :
              k < l => RatLeq(enhanced[l].combinedScore, enhanced[k].combinedScore)
        /\ \A v \in CombinedScores :
              SelectSeq(enhanced, LAMBDA x : x.combinedScore = v)
              = SelectSeq(enhancedBuilt, LAMBDA x : x.combinedScore = v)

\* an audio-derived segment and an orphan of equal combinedScore, and a sort that
\* moved a segment
C6_Witness ==
    /\ fusePc = "done"
    /\ \E k \in 1..(Len(enhanced) - 1) :
          /\ enhanced[k].combinedScore = enhanced[k + 1].combinedScore
          /\ enhanced[k] # enhanced[k + 1]
          /\ enhanced[k] = enhancedBuilt[k]
          /\ k <= Len(audioSegments) /\ k + 1 > Len(audioSegments)

\* C7: with every input score in [0,1], every fused segment has a
\* combinedScore in [0,1].
C7_CombinedScoreInUnitInterval ==
    \A k \in 1..Len(enhanced) :
        /\ RatLeq(Rat(0, 1), enhanced[k].combinedScore)
        /\ RatLeq(enhanced[k].combinedScore, Rat(1, 1))

\* both ends of the range are reached in one output
C7_Witness ==
    /\ fusePc = "done"
    /\ \A i \in AudioIndices :
          RatLeq(Rat(0, 1), audioSegments[i].score) /\ RatLeq(audioSegments[i].score, Rat(1, 1))
    /\ \A j \in ResultIndices :
          /\ RatLeq(Rat(0, 1), captionAnalysisResults[j].score)
          /\ RatLeq(captionAnalysisResults[j].score, Rat(1, 1))
    /\ \E k \in 1..Len(enhanced) : enhanced[k].combinedScore = Rat(1, 1)
    /\ \E k \in 1..Len(enhanced) : enhanced[k].combinedScore = Rat(0, 1)

\* The intervals fuse compares: audio segments and the results' source intervals
InputIntervals ==
    {[start |-> audioSegments[i].start, end |-> audioSegments[i].end] : i \in AudioIndices}
    \cup {[start |-> ResultInterval(j).start, end |-> ResultInterval(j).end] :
              j \in ResultIndices}

\* C8: segmentsOverlap is symmetric and half-open: intervals that only touch do
\* not overlap, intervals sharing a span do; overlap([0,10),[10,20)) is false
\* and overlap([0,10),[9,20)) is true.
C8_OverlapSymmetricHalfOpen ==
    /\ \A a, b \in InputIntervals :
          /\ segmentsOverlap(a, b) = segmentsOverlap(b, a)
          /\ segmentsOverlap(a, b) <=> Intersect(a, b)
          /\ a.end = b.start => ~segmentsOverlap(a, b)
    /\ ~segmentsOverlap([start |-> 0, end |-> 10], [start |-> 10, end |-> 20])
    /\ ~segmentsOverlap([start |-> 10, end |-> 20], [start |-> 0, end |-> 10])
    /\ segmentsOverlap([start |-> 0, end |-> 10], [start |-> 9, end |-> 20])
    /\ segmentsOverlap([start |-> 9, end |-> 20], [start |-> 0, end |-> 10])

\* a high-scoring result that touches an audio segment is emitted as an orphan,
\* one that shares a span with it is not
C8_Witness ==
    /\ fusePc = "done"
    /\ \E i \in AudioIndices, j \in ResultIndices :
          /\ audioSegments[i].end = ResultInterval(j).start
          /\ EmittedAsOrphan(j)
    /\ \E i \in AudioIndices, j \in ResultIndices :
          /\ HighScore(j) /\ ~EmittedAsOrphan(j)
          /\ ResultInterval(j).start < audioSegments[i].end
          /\ audioSegments[i].end < ResultInterval(j).end

----------------------------------------------------------------------------
(* Claims about group (SpecGroup) *)

\* The captions whose text is part of the segment's text
Members(seg) ==
    {k \in 1..Len(captions) :
        \E p \in 1..Len(seg.text) : <<seg.text[p]>> = captions[k].text}

\* C9 as stated: for a positive window every segment lasts at most the window,
\* except possibly the first one when a single caption is longer than the
\* window; no later segment exceeds the window.
C9_OnlyFirstSegmentExceedsWindow ==
    (groupPc = "done" /\ segmentDuration > 0) =>
        \A k \in 1..Len(grouped) :
            \/ grouped[k].duration <= segmentDuration
            \/ /\ k = 1
               /\ \E m \in 1..Len(captions) : captions[m].duration > segmentDuration

\* C9, amended: for a positive window a segment lasts longer than the window
\* only if its whole duration is that of one caption which alone is longer than
\* the window (its other members, if any, have duration 0); such a segment can
\* stand at any position of the output, not only first.
C9_OnlyLongCaptionExceedsWindow ==
    (groupPc = "done" /\ segmentDuration > 0) =>
        \A k \in 1..Len(grouped) :
            \/ grouped[k].duration <= segmentDuration
            \/ \E m \in Members(grouped[k]) :
                  /\ captions[m].duration = grouped[k].duration
                  /\ captions[m].duration > segmentDuration
                  /\ \A o \in Members(grouped[k]) \ {m} : captions[o].duration = 0

\* a later segment, made of one long caption, exceeds the window while the
\* first segment merged two captions within it
C9_Witness ==
    /\ groupPc = "done" /\ segmentDuration > 0
    /\ Len(grouped) >= 2
    /\ Cardinality(Members(grouped[1])) = 2
    /\ grouped[1].duration <= segmentDuration
    /\ grouped[2].duration > segmentDuration
    /\ Cardinality(Members(grouped[2])) = 1

\* C10: a call of group with windowSeconds <= 0 fails with an input error and
\* returns no segments.
C10_NonPositiveWindowIsError ==
    (groupPc = "done" /\ segmentDuration <= 0) => (groupThrew /\ grouped = <<>>)

\* each caption starts where the previous one ends
Contiguous(caps) ==
    \A k \in 1..(Len(caps) - 1) : caps[k].start + caps[k].duration = caps[k + 1].start

\* C11 as stated: the segments of one call are ordered by start, do not overlap
\* and leave no gap: each ends where the next one starts.
C11_SegmentsGapless ==
    groupPc = "done" =>
        \A k \in 1..(Len(grouped) - 1) :
            /\ grouped[k].start <= grouped[k + 1].start
            /\ grouped[k].start + grouped[k].duration = grouped[k + 1].start

\* C11, amended: the segments of one call are ordered by start; they are
\* gapless and non-overlapping when the captions are contiguous (each caption
\* starts where the previous one ends), because a segment's duration is the sum
\* of its captions' durations and not the span they cover.
C11_SegmentsOrderedGaplessIfContiguous ==
    groupPc = "done" =>
        /\ \A k \in 1..(Len(grouped) - 1) : grouped[k].start <= grouped[k + 1].start
        /\ Contiguous(captions) =>
              \A k \in 1..(Len(grouped) - 1) :
                  grouped[k].start + grouped[k].duration = grouped[k + 1].start

\* contiguous captions of positive duration split into at least two segments
C11_Witness ==
    /\ groupPc = "done" /\ Contiguous(captions)
    /\ Len(captions) = MaxCaptions
    /\ \A k \in 1..Len(captions) : captions[k].duration > 0
    /\ Len(grouped) >= 2
    /\ \E k \in 1..Len(grouped) : Cardinality(Members(grouped[k])) >= 2

RECURSIVE SumDurations(_)
SumDurations(S) ==
    IF S = {} THEN 0
    ELSE LET m == CHOOSE x \in S : TRUE
         IN  captions[m].duration + SumDurations(S \ {m})

InSegment(k) == \E g \in 1..Len(grouped) : k \in Members(grouped[g])

SegmentOf(k) == CHOOSE g \in 1..Len(grouped) : k \in Members(grouped[g])

\* what the segment of caption k had accumulated when caption k had been added
AccumulatedAt(k) ==
    SumDurations({m \in Members(grouped[SegmentOf(k)]) : m <= k})

\* C12: group splits exactly when the accumulator has content and adding the
\* caption would exceed the window: every segment starts at the start of its
\* first caption, and caption k+1 leaves the segment of caption k iff
\* accumulated > 0 and accumulated + duration > window.  For (0,5,a), (5,5,b),
\* (10,5,c) and window 8 the split comes after a: a and b are not merged.
C12_SplitRuleExact ==
    groupPc = "done" =>
        /\ \A g \in 1..Len(grouped) :
              /\ Members(grouped[g]) # {}
              /\ \E m \in Members(grouped[g]) :
                    /\ \A o \in Members(grouped[g]) : m <= o
                    /\ grouped[g].start = captions[m].start
        /\ \A k \in 1..(Len(captions) - 1) :
              InSegment(k) =>
                  ((k + 1) \notin Members(grouped[SegmentOf(k)])
                      <=> /\ AccumulatedAt(k) > 0
                          /\ AccumulatedAt(k) + captions[k + 1].duration > segmentDuration)
        /\ (captions = ScenarioACaptions /\ segmentDuration = 8) =>
              /\ Len(grouped) = 3
              /\ \A g \in 1..3 : /\ Members(grouped[g]) = {g}
                                  /\ grouped[g].start = 5 * (g - 1)
                                  /\ grouped[g].duration = 5

\* the call of scenario A has returned
C12_Witness ==
    /\ groupPc = "done" /\ captions = ScenarioACaptions /\ segmentDuration = 8
    /\ Len(grouped) = 3 /\ grouped[1].duration = 5

\* The texts of the captions in S, in input order, each after a single space
RECURSIVE SpacedTexts(_)
SpacedTexts(S) ==
    IF S = {} THEN <<>>
    ELSE LET m == CHOOSE x \in S : \A y \in S : x <= y
         IN  <<" ">> \o captions[m].text \o SpacedTexts(S \ {m})

\* C28: the text of every segment is the concatenation, over its captions in
\* order, of a single space followed by the caption's text, for the first
\* segment and for the segments opened after a flush alike.
C28_TextIsSpacePrefixedConcatenation ==
    groupPc = "done" =>
        \A g \in 1..Len(grouped) : grouped[g].text = SpacedTexts(Members(grouped[g]))

\* C29: for captions of positive duration and a positive window the segments
\* partition the captions: every caption is in exactly one segment, the
\* captions of a segment are consecutive, a segment starts where its first
\* caption starts and lasts the sum of its captions' durations, and the
\* segments' durations sum to the captions' durations.
C29_SegmentsPartitionCaptions ==
    (/\ groupPc = "done" /\ segmentDuration > 0
     /\ \A k \in 1..Len(captions) : captions[k].duration > 0) =>
        /\ \A k \in 1..Len(captions) :
              Cardinality({g \in 1..Len(grouped) : k \in Members(grouped[g])}) = 1
        /\ \A g \in 1..Len(grouped) :
              LET M == Members(grouped[g])
              IN  /\ M # {}
                  /\ \A a, b \in M : \A c \in a..b : c \in M
                  /\ \E m \in M : /\ \A o \in M : m <= o
                                   /\ grouped[g].start = captions[m].start
                  /\ grouped[g].duration = SumDurations(M)
                  /\ g < Len(grouped) =>
                        \A a \in M, b \in Members(grouped[g + 1]) : a < b
        /\ LET RECURSIVE total(_)
               total(g) == IF g = 0 THEN 0 ELSE grouped[g].duration + total(g - 1)
           IN  total(Len(grouped)) = SumDurations(1..Len(captions))

\* three captions of positive duration were split after the second one
C29_Witness ==
    /\ groupPc = "done" /\ segmentDuration > 0
    /\ Len(captions) = 3
    /\ \A k \in 1..Len(captions) : captions[k].duration > 0
    /\ Len(grouped) = 2
    /\ Members(grouped[1]) = {1, 2}
    /\ Members(grouped[2]) = {3}

----------------------------------------------------------------------------
(* Claims about the failures of detect (SpecDetect) *)

\* C13: when the input file is unreadable (missing, or ffmpeg/ffprobe cannot
\* read it) or the audio lasts 0 s, detect ends with an error its caller sees,
\* distinct from an empty result.
C13_UnreadableOrEmptyAudioIsError ==
    (/\ detectPc = "done"
     /\ (~videoExists \/ extractFails \/ probeFails \/ audioDuration = 0))
        => detectThrew

\* C18: once detectViralSegments has returned after extracting the audio,
\* whether the analysis succeeded or failed, the extracted file is gone.
C18_AudioFileDeletedOnEveryExit ==
    (detectPc = "done" /\ videoExists /\ ~extractFails) => ~audioFileExists

----------------------------------------------------------------------------
(* Claims about analyzeMultipleSegments (SpecScore) *)

ScoreIndices == 1..Len(scoreCaptions)

\* the scoring call for caption k failed: the request failed or the answer
\* could not be parsed
Failed(k) == calls[k].response.kind \in {"error", "garbage", "null"}

InFlight == {k \in ScoreIndices : calls[k].state = "inflight"}

\* the batch caption k belongs to, counted from 0
BatchOf(k) == (k - 1) \div batchSize

\* the number of batches of n captions
Batches(n) == (n + batchSize - 1) \div batchSize

\* C14: scoring failures never make analyzeMultipleSegments fail: a failed
\* call yields score 0 with a non-empty reason, every other call keeps what the
\* scorer answered, the function never waits for a call it did not issue, and
\* it returns one result for every caption, all calls having been issued.
C14_ScoringFailuresIsolated ==
    /\ ~scoreThrew
    /\ \A k \in ScoreIndices :
          calls[k].state = "settled" =>
              /\ calls[k].result.caption = scoreCaptions[k]
              /\ Failed(k) => /\ calls[k].result.score = Rat(0, 1)
                              /\ calls[k].result.reasons # <<>>
              /\ ~Failed(k) => /\ calls[k].result.score = calls[k].response.score.value
                               /\ calls[k].result.reasons = calls[k].response.reasons.value
    /\ scorePc = "await" =>
          /\ batchIndices(scoreI, Len(calls)) # {}
          /\ \A k \in batchIndices(scoreI, Len(calls)) : calls[k].state # "waiting"
    /\ scorePc = "done" =>
          /\ \A k \in ScoreIndices : calls[k].state = "settled"
          /\ Len(scoreReturned) = Len(scoreCaptions)
          /\ \A k \in ScoreIndices :
                \E j \in 1..Len(scoreReturned) : scoreReturned[j] = calls[k].result

\* both kinds of failure and a success in the first batch, a success and a
\* failure in a later batch, and the call has returned
C14_Witness ==
    /\ scorePc = "done" /\ Len(scoreCaptions) > batchSize
    /\ calls[1].response.kind = "error" /\ calls[2].response.kind = "json"
    /\ calls[3].response.kind = "garbage"
    /\ \E k, l \in ScoreIndices :
          /\ BatchOf(k) = 1 /\ BatchOf(l) = 1
          /\ Failed(k) /\ ~Failed(l)

\* C15: analyzeMultipleSegments returns exactly one result per caption, also
\* when the number of captions is not a multiple of the batch size, sorted by
\* score descending.
C15_OneResultPerSegmentSorted ==
    scorePc = "done" =>
        /\ Len(scoreReturned) = Len(scoreCaptions)
        /\ \A k \in ScoreIndices :
              Cardinality({j \in 1..Len(scoreReturned) :
                              scoreReturned[j].caption = scoreCaptions[k]}) = 1
        /\ \A j, l \in 1..Len(scoreReturned) :
              j < l => RatLeq(scoreReturned[l].score, scoreReturned[j].score)

\* a last batch that is not full, and a sort that changed the order
C15_Witness ==
    /\ scorePc = "done"
    /\ Len(scoreCaptions) > batchSize /\ Len(scoreCaptions) % batchSize # 0
    /\ scoreReturned # scoreResults
    /\ \E j \in 1..Len(scoreReturned) : scoreReturned[j].score = Rat(1, 2)

\* What the scorer produced for the text of caption k: the score and the
\* reasons of its answer, or score 0 where the call failed
ScoreProducedFor(k) ==
    IF Failed(k) THEN Rat(0, 1) ELSE calls[k].response.score.value

\* The result carries caption k and what the scorer produced for its text
PairedWith(result, k) ==
    /\ result.caption = scoreCaptions[k]
    /\ result.score = ScoreProducedFor(k)
    /\ ~Failed(k) => result.reasons = calls[k].response.reasons.value

\* C30: every result is paired with the caption whose text was scored: in
\* whatever order the calls of a batch settle, some of them failing, the
\* result that carries a caption holds the score the scorer produced for that
\* caption's text, in the results collected so far and in those returned.
C30_ResultPairedWithItsCaption ==
    /\ \A j \in 1..Len(scoreResults) :
          \E k \in ScoreIndices : calls[k].state = "settled" /\ PairedWith(scoreResults[j], k)
    /\ \A j \in 1..Len(scoreReturned) :
          \E k \in ScoreIndices : calls[k].state = "settled" /\ PairedWith(scoreReturned[j], k)
    /\ scorePc = "done" =>
          \A k \in ScoreIndices : \E j \in 1..Len(scoreReturned) : PairedWith(scoreReturned[j], k)

\* the three calls of the first batch ended differently (one failed, two
\* answered with different scores) and their results were returned
C30_Witness ==
    /\ scorePc = "done" /\ Len(scoreCaptions) >= batchSize
    /\ calls[1].response.kind = "json" /\ calls[1].response.score.value = Rat(1, 2)
    /\ calls[2].response.kind = "error"
    /\ calls[3].response.kind = "json" /\ calls[3].response.score.value = Rat(3, 2)
    /\ \E j \in 1..Len(scoreReturned) :
          /\ scoreReturned[j].caption = scoreCaptions[3]
          /\ scoreReturned[j].score = Rat(3, 2)

\* C16: at most 3 scoring calls are in flight at any moment, and a call of a
\* later batch is issued only when every call of the earlier batches has
\* settled, whatever the order in which the calls settle.
C16_AtMostThreeInFlight ==
    /\ Cardinality(InFlight) <= 3
    /\ \A k, l \in ScoreIndices :
          (BatchOf(k) < BatchOf(l) /\ calls[l].state # "waiting")
              => calls[k].state = "settled"

\* in the second batch a later call has settled before an earlier one, and in
\* the first batch a call had failed
C16_Witness ==
    /\ scorePc = "await" /\ scoreI = batchSize /\ Len(scoreCaptions) >= 6
    /\ calls[4].state = "inflight" /\ calls[5].state = "settled"
    /\ calls[6].state = "inflight"
    /\ Failed(2)

\* C17: the delay of 1000 ms is slept exactly once between two consecutive
\* batches and not after the last one: a call with n > 0 captions sleeps
\* ceil(n/3) - 1 times and takes at least that many times 1000 ms, whatever
\* the calls answered.
C17_FixedDelayBetweenBatches ==
    /\ \A d \in 1..Len(delays) : delays[d] = 1000
    /\ scorePc = "sleep" => scoreI + batchSize < Len(scoreCaptions)
    /\ scorePc = "await" => Len(delays) = BatchOf(scoreI + 1)
    /\ scorePc = "done" =>
          /\ Len(scoreCaptions) = 0 => delays = <<>>
          /\ Len(scoreCaptions) > 0 =>
                /\ Len(delays) = Batches(Len(scoreCaptions)) - 1
                /\ elapsed >= (Batches(Len(scoreCaptions)) - 1) * 1000

\* three batches, two delays, all calls of the first batch failed
C17_Witness ==
    /\ scorePc = "done" /\ Batches(Len(scoreCaptions)) = 3
    /\ Len(delays) = 2 /\ elapsed > 2000
    /\ \A k \in 1..batchSize : Failed(k)

----------------------------------------------------------------------------
(* Claims about clipMultipleSegments (SpecClip) *)

\* C19: clipMultipleSegments returns exactly one result per segment, result i
\* for segment i, also when renders fail: a failed render gives a result with
\* success = false and the later clips are still made, in order; clip i+1 is
\* started only when clip i has finished.
C19_ClipsOneToOneInOrder ==
    /\ clipPc = "await" => clipRunning.index = Len(clipResults) + 1
    /\ \A k \in 1..Len(clipResults) : clipResults[k].segment = clipSegments[k]
    /\ clipVideoExists =>
          /\ Len(renders) = Len(clipResults)
          /\ \A k \in 1..Len(renders) :
                renders[k].index = k /\ clipResults[k].success = renders[k].ok
    /\ ~clipVideoExists => \A k \in 1..Len(clipResults) : ~clipResults[k].success
    /\ clipPc = "done" =>
          /\ Len(clipReturned) = Len(clipSegments)
          /\ \A k \in 1..Len(clipReturned) : clipReturned[k].segment = clipSegments[k]

\* the first render failed, the later ones succeeded, and the call returned
C19_Witness ==
    /\ clipPc = "done" /\ clipVideoExists /\ Len(clipSegments) >= 3
    /\ clipSegments[1] # clipSegments[2]
    /\ ~clipReturned[1].success /\ clipReturned[2].success /\ clipReturned[3].success

\* C21: the clips produced in one process have pairwise different output
\* names, also when they are made in the same millisecond.
C21_OutputIdsUnique ==
    \A k, l \in 1..Len(clipResults) :
        (k # l /\ clipResults[k].success /\ clipResults[l].success)
            => clipResults[k].outputPath # clipResults[l].outputPath

----------------------------------------------------------------------------
(* Claims about the parsing of the scorer's answer.  *)

\* The answer's content was read as an object
Parsed == parsePc = "done" /\ scorerResponse.kind \in {"json", "object"}

\* The answer's content could not be read
Unparseable == parsePc = "done" /\ scorerResponse.kind \in {"garbage", "null"}

\* What a failed call resolves with (lines 72-78)
FailedCallResult ==
    [score |-> Rat(0, 1), reasons |-> <<"Error analyzing content">>, emotions |-> <<>>,
     keywords |-> <<>>, summary |-> "Analysis failed"]

\* A score field that holds a number, as a number or at the head of a text
Numeric(field) == field.kind \in {"number", "numeral"}

\* A missing or non-numeric score becomes 0, a numeric one is kept, and each
\* array field that is missing or not an array becomes the empty sequence
Coercions ==
    Parsed =>
        /\ ~Numeric(scorerResponse.score) => parsedResult.score = Rat(0, 1)
        /\ Numeric(scorerResponse.score) => parsedResult.score = scorerResponse.score.value
        /\ \A field \in {"reasons", "emotions", "keywords"} :
              parsedResult[field] = IF scorerResponse[field].kind = "array"
                                    THEN scorerResponse[field].value ELSE <<>>

\* C23 as stated: the coercions hold and an answer that cannot be parsed
\* gives the very result of a failed call, field by field.
C23_UnparseableSameAsFailedCall ==
    /\ Coercions
    /\ Unparseable => parsedResult = FailedCallResult

\* C23, amended: the coercions hold; an answer that cannot be parsed gives a
\* result that agrees with that of a failed call in score 0, in carrying one
\* diagnostic reason and in empty emotions and keywords, while its reason and
\* its summary are those of the parse failure, not those of the failed call.
C23_UnparseableLikeFailedCallButOwnTexts ==
    /\ Coercions
    /\ parsePc = "done" /\ scorerResponse.kind = "error" => parsedResult = FailedCallResult
    /\ Unparseable =>
          /\ parsedResult.score = FailedCallResult.score
          /\ parsedResult.emotions = FailedCallResult.emotions
          /\ parsedResult.keywords = FailedCallResult.keywords
          /\ parsedResult.reasons = <<"Error parsing analysis result">>
          /\ parsedResult.summary = "Failed to parse analysis"
          /\ parsedResult.reasons # FailedCallResult.reasons
          /\ parsedResult.summary # FailedCallResult.summary

\* The answer's content was the JSON null: reading its score threw, and the
\* call resolved with the result of the parse failure
C23_Witness ==
    /\ Unparseable
    /\ scorerResponse.kind = "null"
    /\ parsedResult.score = Rat(0, 1)
    /\ parsedResult.reasons = <<"Error parsing analysis result">>

\* C24: every result returned by analyzeMultipleSegments has a score between
\* 0 and 1, whatever number the scorer's answer carries in its score field.
C24_ReturnedScoresWithinUnitInterval ==
    \A j \in 1..Len(scoreReturned) :
        /\ RatLeq(Rat(0, 1), scoreReturned[j].score)
        /\ RatLeq(scoreReturned[j].score, Rat(1, 1))

----------------------------------------------------------------------------
(* Claims about createCompilation.  *)

\* The ffmpeg process of call c has been started and has not finished
Concatenating(c) == compilePc[c] \in {"started", "concatenating"}

\* C27: the list file a call wrote is that call's alone: while its
\* concatenation runs the file exists and holds what the call wrote (the
\* other call has neither overwritten nor deleted it), and the list its
\* ffmpeg read is the one it wrote.
C27_ListFileOwnedExclusively ==
    \A c \in Callers :
        /\ Concatenating(c) => listFile.exists /\ listFile.writer = c
        /\ compilePc[c] = "concatenating" => ffmpegInput[c].writer = c

----------------------------------------------------------------------------
(* Claims about filterSegmentsByDuration.  *)

\* The bounds in force: the arguments, or 5 and 60 seconds where not given
minInForce == IF minDuration.given THEN minDuration.value ELSE 5
maxInForce == IF maxDuration.given THEN maxDuration.value ELSE 60

\* Positions of the input segments whose length lies within the bounds
KeptPositions ==
    {k \in 1..Len(filterSegments) :
        /\ minInForce <= filterSegments[k].end - filterSegments[k].start
        /\ filterSegments[k].end - filterSegments[k].start <= maxInForce}

\* C22: the filter returns exactly the input segments whose length lies
\* within the bounds (inclusive), in their original order, and filtering that
\* result again with the same bounds returns it unchanged.
C22_FilterExactAndIdempotent ==
    /\ filterPc \in {"once", "twice"} =>
          /\ Len(filteredOnce) = Cardinality(KeptPositions)
          /\ \A k \in KeptPositions :
                filteredOnce[Cardinality({l \in KeptPositions : l <= k})] = filterSegments[k]
    /\ filterPc = "twice" => filteredTwice = filteredOnce

\* Filtered twice with the default minimum: a segment of exactly five
\* seconds is kept, a shorter one before it is dropped
C22_Witness ==
    /\ filterPc = "twice"
    /\ ~minDuration.given
    /\ Len(filterSegments) >= 2
    /\ filterSegments[1].end - filterSegments[1].start = 1
    /\ filterSegments[2].end - filterSegments[2].start = 5
    /\ Len(filteredTwice) >= 1
    /\ filteredTwice[1] = filterSegments[2]

----------------------------------------------------------------------------
(* Claims about RemotionClipper (SpecSlice) *)

\* the captions overlapping [start, end) under the half-open predicate of fuse
HalfOpenSlice(start, end) ==
    SelectSeq(sliceCaptions, LAMBDA c : segmentsOverlap(c, [start |-> start, end |-> end]))

\* C20: the captions sent with a render request, and those shown in the
\* preview, are exactly the captions whose [start, end) overlaps the selected
\* [start, end) under the half-open predicate of fuse: a caption that only
\* touches the selection at an endpoint is left out.
C20_CaptionSliceHalfOpen ==
    /\ renderRequest.sent =>
          renderRequest.captions = HalfOpenSlice(renderRequest.startTime, renderRequest.endTime)
    /\ selectedSegment.set =>
          previewCaptions = HalfOpenSlice(selectedSegment.start, selectedSegment.end)

====
